---- MODULE Spec2Model ----
(***************************************************************************)
(* gochroma: Printer (Fingerprint / RawFingerprint / prepare / Close) on   *)
(* top of chromaprint.ChromaprintContext (Start / Feed / Finish /          *)
(* GetFingerprint / GetRawFingerprint / Free).                             *)
(*                                                                         *)
(* A byte of the source's stream is identified by its offset in the       *)
(* stream, so two byte sequences are equal exactly when they are the same  *)
(* bytes of the stream in the same order.  A 16-bit sample is the pair of  *)
(* bytes it is made of.                                                    *)
(***************************************************************************)
EXTENDS Integers, Sequences, FiniteSets, TLC

(* ---- program constants ------------------------------------------------ *)
seconds == 10
minmaxseconds == 120

(* ---- bounds of the model ---------------------------------------------- *)
\* width in bits of the unsigned type of MaxSeconds and of the loop counter
W == 8
\* longest stream whose reads may be split in every possible way
MaxSrcLen == 4
\* how many times Close may be called
MaxCloses == 2

UintMod == 2 ^ W
\* the loop is cut after this many Feed calls (more than any cap below 2^W allows)
MaxFeeds == (UintMod \div seconds) + 3

Min(a, b) == IF a < b THEN a ELSE b
Max(a, b) == IF a > b THEN a ELSE b

(* ---- inputs ----------------------------------------------------------- *)
Kinds == {"Fingerprint", "RawFingerprint"}
\* the largest value the loop counter takes before it wraps
LastMultiple == ((UintMod - 1) \div seconds) * seconds
MaxSecondsVals ==
    {0, 5, 30, minmaxseconds - 1, minmaxseconds, minmaxseconds + 5,
     LastMultiple - 1, LastMultiple, UintMod - 1}
Rates == {1}
ChannelCounts == {1, 2}

VARIABLES
    released,   \* number of chromaprint_free calls made on the engine handle
    uaf,        \* an engine call was made on the handle after it was released
    cstate,     \* state of the engine context
    samples,    \* 16-bit samples the engine has accumulated since the last start
    pc,         \* position of the Printer's caller: idle, loop, finish, extract, done
    kind,       \* which of Fingerprint / RawFingerprint is running
    info,       \* the RawInfo of the running call (MaxSeconds after the clamp)
    maxArg,     \* MaxSeconds as the caller passed it
    numbytes,   \* len(buf)
    total,      \* the loop counter of prepare
    pos,        \* bytes of the stream the source has handed out
    lastRead,   \* what the last Src.Read returned
    reads,      \* number of Src.Read calls of the running call
    fedChunks,  \* the arguments of the Feed calls of the running call
    finishes,   \* number of Finish calls of the running call
    gets,       \* number of GetFingerprint / GetRawFingerprint calls of the running call
    ret,        \* what the last call returned
    runFrom     \* the state the context was in when the running call began

vars == <<released, uaf, cstate, samples, pc, kind, info, maxArg, numbytes, total,
          pos, lastRead, reads, fedChunks, finishes, gets, ret, runFrom>>

(* ---- the source (i.Src, an io.Reader supplied by the caller) ---------- *)
\* bytes of 120 seconds of audio, given the bytes of one 10-second chunk
FloorBytes(nb) == (minmaxseconds \div seconds) * nb

\* chunk = 0: a read may return any number of bytes from 1 up to what is asked and
\* left; chunk = c > 0: a read returns c bytes (fewer when fewer are asked or left)
Chunkings(nb) == {nb, nb \div 2, nb - 1}
Sources(nb) ==
    {[endless |-> FALSE, len |-> L, chunk |-> 0] : L \in 0 .. MaxSrcLen}
        \cup {[endless |-> FALSE, len |-> L, chunk |-> c] :
                L \in {FloorBytes(nb), FloorBytes(nb) + nb + 1}, c \in Chunkings(nb)}
        \cup {[endless |-> TRUE, len |-> 0, chunk |-> c] : c \in Chunkings(nb)}

ReadSizes(s, p, nb) ==
    LET avail == IF s.endless THEN nb ELSE Min(nb, s.len - p)
    IN  IF avail = 0 THEN {0}
        ELSE IF s.chunk = 0 THEN 1 .. avail
        ELSE {Min(s.chunk, avail)}

ReadErrs(s, p, n) ==
    IF s.endless THEN {"nil"}
    ELSE IF p + n = s.len THEN {"nil", "EOF"}
    ELSE {"nil"}

\* every outcome of one Read(buf) with len(buf) = nb at offset p: n bytes with no
\* error or with io.EOF, or a failure that may come with some bytes
ReadResults(s, p, nb) ==
    UNION {{[n |-> n, err |-> e] : e \in ReadErrs(s, p, n)} : n \in ReadSizes(s, p, nb)}
        \cup {[n |-> n, err |-> "ErrSrc"] : n \in {0} \cup ReadSizes(s, p, nb)}

(* ---- pure parts of Printer.prepare ------------------------------------ *)
ClampMaxSecondsDouble(m) == IF m < 2 * minmaxseconds THEN 2 * minmaxseconds ELSE m
ClampMaxSeconds(m) == IF m < minmaxseconds THEN minmaxseconds ELSE m

NumBytes(rate, channels) == 2 * seconds * rate * channels

LoopCond(t, m) == t <= m

NextTotal(t) == (t + seconds) % UintMod

ReadAbortsNever(err) == FALSE
ReadAbortsOnEOF(err) == err # "nil"
ReadAborts(err) == err # "nil" /\ err # "EOF"

\* buf[:read], as the bytes of the stream it holds
FeedArgWholeBuffer(off, n, nb) == [off |-> off, len |-> nb]
FeedArg(off, n, nb) == [off |-> off, len |-> n]

StartErrorIgnored(ok) == FALSE
StartAborts(ok) == ~ok

(* ---- chromaprint.ChromaprintContext ----------------------------------- *)
\* the len(data)/2 samples chromaprint_feed is handed, from &data[0] on
FeedSamples(off, n) ==
    [k \in 1 .. (n \div 2) |-> <<off + 2 * (k - 1), off + 2 * (k - 1) + 1>>]

NoFprint == [set |-> FALSE, enc |-> "none", data |-> <<>>]
\* "" for Fingerprint, nil for RawFingerprint
ZeroValue(k) == [set |-> FALSE, enc |-> k, data |-> <<>>]
\* the engine's fingerprint of the samples it accumulated (opaque: a function of them)
Encode(k, s) == [set |-> TRUE, enc |-> k, data |-> s]
ErrGet(k) == IF k = "Fingerprint" THEN "ErrFprint" ELSE "ErrRawFprint"

GetResultKeepsFprint(k, ok, s) ==
    IF ok THEN [fprint |-> Encode(k, s), err |-> "nil"]
    ELSE [fprint |-> Encode(k, s), err |-> ErrGet(k)]
GetResult(k, ok, s) ==
    IF ok THEN [fprint |-> Encode(k, s), err |-> "nil"]
    ELSE [fprint |-> ZeroValue(k), err |-> ErrGet(k)]

NoInfo == [MaxSeconds |-> 0, Rate |-> 0, Channels |-> 0,
           Src |-> [endless |-> FALSE, len |-> 0, chunk |-> 0]]
NoRead == [n |-> 0, err |-> "none"]

(* ---- New --------------------------------------------------------------- *)
Init ==
    /\ released = 0
    /\ uaf = FALSE
    /\ cstate = "Uninitialized"
    /\ samples = <<>>
    /\ pc = "idle"
    /\ kind = "none"
    /\ info = NoInfo
    /\ maxArg = 0
    /\ numbytes = 0
    /\ total = 0
    /\ pos = 0
    /\ lastRead = NoRead
    /\ reads = 0
    /\ fedChunks = <<>>
    /\ finishes = 0
    /\ gets = 0
    /\ ret = [fprint |-> NoFprint, err |-> "none"]
    /\ runFrom = "none"

\* an engine call on the handle: after Free the handle dangles
Touch == uaf' = (uaf \/ released > 0)

(* ---- Fingerprint / RawFingerprint: entry, the clamp, ctx.Start -------- *)
Call(k, ms, rate, channels, src) ==
    /\ pc = "idle"
    /\ kind' = k
    /\ runFrom' = cstate
    /\ Touch
    /\ UNCHANGED released
    /\ lastRead' = NoRead
    /\ reads' = 0
    /\ fedChunks' = <<>>
    /\ finishes' = 0
    /\ gets' = 0
    /\ total' = 0
    /\ pos' = 0
    /\ \E ok \in BOOLEAN :
        /\ cstate' = IF ok THEN "Started" ELSE "Unusable"
        /\ samples' = IF ok THEN <<>> ELSE samples
        /\ IF StartAborts(ok)
           THEN /\ ret' = [fprint |-> ZeroValue(k), err |-> "ErrStart"]
                /\ pc' = "done"
                /\ info' = NoInfo
                /\ maxArg' = 0
                /\ numbytes' = 0
           ELSE /\ ret' = [fprint |-> NoFprint, err |-> "none"]
                /\ pc' = "loop"
                /\ info' = [MaxSeconds |-> ClampMaxSeconds(ms), Rate |-> rate,
                            Channels |-> channels, Src |-> src]
                /\ maxArg' = ms
                /\ numbytes' = NumBytes(rate, channels)

(* ---- one pass of the for loop of prepare ------------------------------ *)
Iterate ==
    /\ pc = "loop"
    /\ Len(fedChunks) < MaxFeeds
    /\ UNCHANGED <<released, kind, info, maxArg, numbytes, finishes, gets, runFrom>>
    /\ IF ~LoopCond(total, info.MaxSeconds)
       THEN /\ pc' = "finish"
            /\ UNCHANGED <<uaf, cstate, samples, total, pos, lastRead, reads, fedChunks, ret>>
       ELSE \E r \in ReadResults(info.Src, pos, numbytes) :
            /\ reads' = reads + 1
            /\ pos' = pos + r.n
            /\ lastRead' = r
            /\ IF ReadAborts(r.err)
               THEN /\ ret' = [fprint |-> ZeroValue(kind), err |-> r.err]
                    /\ pc' = "done"
                    /\ UNCHANGED <<uaf, cstate, samples, total, fedChunks>>
               ELSE IF r.n = 0
               THEN /\ pc' = "finish"
                    /\ UNCHANGED <<uaf, cstate, samples, total, fedChunks, ret>>
               ELSE LET data == FeedArg(pos, r.n, numbytes)
                    IN  /\ fedChunks' = Append(fedChunks, data)
                        /\ Touch
                        /\ \E ok \in BOOLEAN :
                            IF ok
                            THEN /\ samples' = samples \o FeedSamples(data.off, data.len)
                                 /\ total' = NextTotal(total)
                                 /\ pc' = "loop"
                                 /\ UNCHANGED <<cstate, ret>>
                            ELSE /\ ret' = [fprint |-> ZeroValue(kind), err |-> "ErrFeed"]
                                 /\ pc' = "done"
                                 /\ cstate' = "Unusable"
                                 /\ UNCHANGED <<samples, total>>

(* ---- ctx.Finish and the return of prepare ----------------------------- *)
Finish ==
    /\ pc = "finish"
    /\ finishes' = finishes + 1
    /\ Touch
    /\ UNCHANGED <<released, samples, kind, info, maxArg, numbytes, total, pos, lastRead,
                   reads, fedChunks, gets, runFrom>>
    /\ \E ok \in BOOLEAN :
        IF ok
        THEN /\ cstate' = "Finished"
             /\ pc' = "extract"
             /\ UNCHANGED ret
        ELSE /\ cstate' = "Unusable"
             /\ pc' = "done"
             /\ ret' = [fprint |-> ZeroValue(kind), err |-> "ErrFinish"]

(* ---- ctx.GetFingerprint / ctx.GetRawFingerprint and the return -------- *)
Extract ==
    /\ pc = "extract"
    /\ gets' = gets + 1
    /\ Touch
    /\ pc' = "done"
    /\ \E ok \in BOOLEAN : ret' = GetResult(kind, ok, samples)
    /\ UNCHANGED <<released, cstate, samples, kind, info, maxArg, numbytes, total, pos,
                   lastRead, reads, fedChunks, finishes, runFrom>>

(* ---- the call has returned: its locals are gone ------------------------ *)
Return ==
    /\ pc = "done"
    /\ pc' = "idle"
    /\ kind' = "none"
    /\ info' = NoInfo
    /\ maxArg' = 0
    /\ numbytes' = 0
    /\ total' = 0
    /\ pos' = 0
    /\ lastRead' = NoRead
    /\ reads' = 0
    /\ fedChunks' = <<>>
    /\ finishes' = 0
    /\ gets' = 0
    /\ ret' = [fprint |-> NoFprint, err |-> "none"]
    /\ runFrom' = "none"
    /\ UNCHANGED <<released, uaf, cstate, samples>>

(* ---- Close ------------------------------------------------------------- *)
Close ==
    /\ pc = "idle"
    /\ released < MaxCloses
    /\ released' = released + 1
    /\ Touch
    /\ cstate' = "Released"
    /\ UNCHANGED <<samples, pc, kind, info, maxArg, numbytes, total, pos, lastRead, reads,
                   fedChunks, finishes, gets, ret, runFrom>>

CallAny ==
    \E k \in Kinds, ms \in MaxSecondsVals, rate \in Rates, channels \in ChannelCounts :
        \E src \in Sources(NumBytes(rate, channels)) : Call(k, ms, rate, channels, src)

\* a Printer that is used and never closed
Next == CallAny \/ Iterate \/ Finish \/ Extract \/ Return
Spec == Init /\ [][Next]_vars

\* a Printer whose caller may also call Close, at any time between calls
NextClose == CallAny \/ Iterate \/ Finish \/ Extract \/ Return \/ Close
SpecClose == Init /\ [][NextClose]_vars
(* ======================================================================= *)
(* Properties                                                              *)
(* ======================================================================= *)
Feeds == Len(fedChunks)

RECURSIVE SumLen(_)
SumLen(chunks) ==
    IF chunks = <<>> THEN 0 ELSE chunks[1].len + SumLen(Tail(chunks))
\* bytes handed to Feed in the running call
FedBytes == SumLen(fedChunks)

\* the source of the running call never runs out of data
Endless == pc # "idle" /\ info.Src.endless

\* C1 as the spec states it: with MaxSeconds = 30 and a source that never ends,
\* Feed is called at most ceil(30/10) = 3 times.
C1_Original == (Endless /\ maxArg = 30) => Feeds <= 3

\* C1, amended: with MaxSeconds = 30 (raised to the floor of 120 by the clamp) and a
\* source that never ends, Feed is called at most floor(120/10) + 1 = 13 times; after
\* the 13th Feed the loop condition is false, and prepare has called Finish exactly
\* once by the time it returns without error.
C1_DurationCap ==
    (Endless /\ maxArg = 30) =>
        /\ Feeds <= (Max(30, minmaxseconds) \div seconds) + 1
        /\ (pc = "loop" /\ Feeds = (Max(30, minmaxseconds) \div seconds) + 1)
              => ~(total <= info.MaxSeconds)
        /\ pc = "extract" => finishes = 1
C1_Witness ==
    /\ Endless /\ maxArg = 30 /\ info.Src.chunk = numbytes
    /\ Feeds = 13 /\ finishes = 1 /\ pc = "extract"

\* C2: with MaxSeconds below 120 and a source that holds at least 120 seconds of audio,
\* however the source splits its data across reads, at least 120 seconds of audio
\* (120 * 2 * rate * channels bytes) have been fed by the time Finish is called.
C2_MinimumFloor ==
    (/\ finishes = 1
     /\ maxArg < minmaxseconds
     /\ (info.Src.endless \/ info.Src.len >= minmaxseconds * 2 * info.Rate * info.Channels))
        => FedBytes >= minmaxseconds * 2 * info.Rate * info.Channels

\* C3: however the stream is split into chunks, the samples the engine has received
\* through the Feed calls are the samples it receives when the same bytes are passed
\* in one Feed call, and so is the fingerprint returned.
C3_ChunkingInvariance ==
    /\ (pc \in {"loop", "finish", "extract"} \/ (pc = "done" /\ ret.err = "nil"))
          => samples = FeedSamples(0, FedBytes)
    /\ (pc = "done" /\ ret.err = "nil")
          => ret.fprint = Encode(kind, FeedSamples(0, FedBytes))

C4_Aborted ==
    lastRead.err = "ErrSrc" =>
        /\ pc = "done"
        /\ ret = [fprint |-> ZeroValue(kind), err |-> "ErrSrc"]
        /\ finishes = 0
        /\ gets = 0
        /\ Feeds = reads - 1
        /\ FedBytes = pos - lastRead.n
\* C4: once a read has returned an error other than end-of-stream, the call has
\* returned that error, Finish and the extraction were not called, the failing read's
\* bytes were not fed, and nothing more is read, fed, finished or extracted in that run.
C4_SourceFailureAborts ==
    /\ []C4_Aborted
    /\ [][lastRead.err = "ErrSrc" =>
            \/ pc' = "idle"
            \/ UNCHANGED <<reads, pos, fedChunks, finishes, gets, samples, cstate>>]_vars
C4_Witness ==
    /\ lastRead.err = "ErrSrc" /\ lastRead.n > 0
    /\ reads = 3 /\ Feeds = 2 /\ pc = "done" /\ finishes = 0

\* C5: after a read that returned zero bytes with no error or with end-of-stream, the
\* loop has stopped, that read was not fed, Finish is called exactly once, and the call
\* fails only if Finish or the extraction fails.
C5_CleanEndOfStream ==
    (lastRead.n = 0 /\ lastRead.err \in {"nil", "EOF"}) =>
        /\ pc \in {"finish", "extract", "done"}
        /\ Feeds = reads - 1
        /\ FedBytes = pos
        /\ finishes = (IF pc = "finish" THEN 0 ELSE 1)
        /\ pc = "extract" => cstate = "Finished"
        /\ pc = "done" => /\ ret.err \in {"nil", "ErrFinish", ErrGet(kind)}
                          /\ (ret.err = "ErrFinish") <=> (cstate # "Finished")
C5_Witness ==
    /\ lastRead = [n |-> 0, err |-> "EOF"]
    /\ reads = 1 /\ Feeds = 0 /\ finishes = 1
    /\ pc = "done" /\ ret.err = "nil"

\* C6: a call that returns an error returns the empty result with it, and when the
\* error is that of Start, a read, Feed or Finish, the extraction was not called.
C6_NoFingerprintOnError ==
    pc = "done" =>
        /\ ret.err # "none"
        /\ ret.err # "nil" => ret.fprint = ZeroValue(kind)
        /\ ret.err \in {"ErrStart", "ErrSrc", "ErrFeed", "ErrFinish"} => gets = 0
        /\ ret.err \in {"nil", "ErrFprint", "ErrRawFprint"} => gets = 1
C6_Witness ==
    /\ pc = "done" /\ ret.err = "ErrRawFprint" /\ kind = "RawFingerprint"
    /\ samples # <<>> /\ gets = 1

C7_Position ==
    /\ pc \in {"loop", "finish"} => cstate = "Started"
    /\ pc = "extract" => cstate = "Finished"
C7_Step ==
    /\ Len(fedChunks') > Len(fedChunks) => cstate = "Started"
    /\ finishes' > finishes => cstate = "Started"
    /\ gets' > gets => cstate = "Finished" /\ cstate' = "Finished"
    /\ (pc = "idle" /\ pc' # "idle") =>
          /\ cstate' \in {"Started", "Unusable"}
          /\ pc' = "loop" => (cstate' = "Started" /\ samples' = <<>>)
    /\ cstate' # cstate =>
          \/ cstate' = "Unusable"
          \/ cstate' = "Started" /\ pc = "idle"
          \/ cstate' = "Finished" /\ cstate = "Started"
\* C7: Feed and Finish are only invoked on a Started context, the extraction only on a
\* Finished one, every run begins with Start, whatever state the run before left the
\* context in, and the context only moves along start, finish and failure edges.
C7_CallOrdering == []C7_Position /\ [][C7_Step]_vars
C7_Witness ==
    /\ runFrom \in {"Started", "Unusable"}
    /\ pc = "done" /\ ret.err = "nil" /\ cstate = "Finished" /\ Feeds >= 2

\* C8: each read is asked for one chunk of 2*10*rate*channels bytes, every read of
\* n > 0 bytes that does not fail is fed as exactly those n bytes, no Feed is empty, and
\* the chunks fed are the consecutive bytes of the stream read so far.
C8_FedIsRead ==
    pc # "idle" =>
        /\ ret.err # "ErrStart" => numbytes = 2 * seconds * info.Rate * info.Channels
        /\ lastRead.n <= numbytes
        /\ \A i \in 1 .. Feeds :
              /\ fedChunks[i].len > 0
              /\ fedChunks[i].off = SumLen(SubSeq(fedChunks, 1, i - 1))
        /\ FedBytes = (IF lastRead.err = "ErrSrc" THEN pos - lastRead.n ELSE pos)
        /\ Feeds = (IF reads > 0 /\ (lastRead.n = 0 \/ lastRead.err = "ErrSrc")
                    THEN reads - 1 ELSE reads)
C8_Witness ==
    /\ pc = "loop" /\ Feeds = 2 /\ reads = 2
    /\ lastRead.err = "EOF" /\ lastRead.n > 0 /\ lastRead.n < numbytes
    /\ FedBytes = pos

\* C9: for every MaxSeconds and a source that never ends, Feed is called at most
\* floor(max(MaxSeconds, 120) / 10) + 1 times.
C9_BoundedWork ==
    Endless => Feeds <= (Max(maxArg, minmaxseconds) \div seconds) + 1

\* C10: the engine handle is released at most once, and no engine call is made on a
\* released handle.
C10_SingleRelease == released <= 1 /\ ~uaf
====
